---- MODULE Spec2Model ----
(***************************************************************************)
(* convert_cbz (main.go): a batch converter of image folders into .cbz     *)
(* archives.  main enumerates the immediate subfolders of the input root,  *)
(* builds one WorkItem per subfolder and processConcurrently runs them on  *)
(* a pool of worker goroutines fed by one producer goroutine through a     *)
(* buffered channel.  Strings (names, paths) are sequences of byte values, *)
(* so that sort.Strings, filepath.Join, filepath.Rel and filepath.ToSlash  *)
(* are computed as the code computes them.                                 *)
(***************************************************************************)
EXTENDS Integers, Sequences, FiniteSets, TLC

VARIABLES
    mainpc,     \* position of main()
    run,        \* which invocation of the tool this is (1, 2)
    ncpu,       \* runtime.NumCPU()
    requested,  \* the value given for the -threads flag
    threads,    \* *threads: the -threads flag, then the effective count
    input,      \* the input root: entry name -> entry (none, file, folder)
    outfs,      \* the output root: path -> file (absent or archive)
    fs0,        \* the output root as it was when this invocation started
    folders,    \* result of getFolders
    workItems,  \* []WorkItem built by main
    workChan,   \* buffered items of the work channel
    chanCap,    \* capacity of the work channel
    closed,     \* the work channel has been closed
    sent,       \* number of items the producer goroutine has sent
    prodpc,     \* position of the producer goroutine
    wk,         \* worker goroutines: id -> locals and position
    wgCount,    \* sync.WaitGroup counter
    stats,      \* ConversionStats counters
    mu,         \* stats.mu: 0 when free, else the worker holding it
    job,        \* per WorkItem index: observed life cycle of the job
    fatal,      \* the error main logged before os.Exit(1), if any
    report      \* the success rate line of printFinalStats

vars == <<mainpc, run, ncpu, requested, threads, input, outfs, fs0, folders, workItems,
          workChan, chanCap, closed, sent, prodpc, wk, wgCount, stats, mu, job,
          fatal, report>>

----------------------------------------------------------------------------
(* Bounds of the model *)

\* largest number of workers where several jobs run concurrently
MaxWorkers == 2
\* largest value of the -threads flag tried for the clamping (from -1 on)
MaxRequested == 3
\* largest runtime.NumCPU() tried for the clamping
MaxCPU == 1
\* number of entry names the input root may hold
MaxEntries == 2
\* largest number of files in a folder of the exhaustive scan inputs
MaxFiles == 2

----------------------------------------------------------------------------
(* Strings as byte sequences *)

Min(a, b) == IF a < b THEN a ELSE b

\* Go's string comparison a < b: bytewise lexicographic
LexLess(a, b) ==
    \E k \in 1..(Min(Len(a), Len(b)) + 1) :
        /\ \A i \in 1..(k - 1) : a[i] = b[i]
        /\ \/ k <= Len(a) /\ k <= Len(b) /\ a[k] < b[k]
           \/ k = Len(a) + 1 /\ k <= Len(b)

\* the place of s[i] in ascending order: after the smaller elements and
\* after the equal elements that precede it
Rank(s, i) ==
    Cardinality({k \in 1..Len(s) : LexLess(s[k], s[i])})
      + Cardinality({k \in 1..(i - 1) : s[k] = s[i]}) + 1

\* no sorting: the order of the enumeration is kept
SortStringsNone(s) == s

\* sort.Strings: ascending bytewise order, duplicates kept
SortStrings(s) ==
    LET Sorted(v) ==
            [r \in 1..Len(v) |-> v[CHOOSE i \in 1..Len(v) : Rank(v, i) = r]]
    IN CHOOSE t \in {Sorted(v) : v \in {s}} : TRUE

IsSorted(s) == \A i \in 1..(Len(s) - 1) : ~LexLess(s[i + 1], s[i])

Range(s) == {s[i] : i \in 1..Len(s)}

\* the elements of a set of strings in ascending bytewise order
SortedSeqOf(S) ==
    [r \in 1..Cardinality(S) |->
        CHOOSE x \in S : Cardinality({y \in S : LexLess(y, x)}) = r - 1]

\* os.PathSeparator of the build ('/'; '\' on Windows builds)
Separator == 47

\* filepath.Join(dir, name) for clean, non-empty elements
Join(dir, name) == dir \o <<Separator>> \o name

\* filepath.Base: what follows the last separator
Base(p) ==
    SubSeq(p,
           CHOOSE k \in 1..(Len(p) + 1) :
              /\ k = 1 \/ p[k - 1] = Separator
              /\ \A i \in k..Len(p) : p[i] # Separator,
           Len(p))

HasPrefix(s, pre) ==
    /\ Len(pre) <= Len(s)
    /\ \A i \in 1..Len(pre) : s[i] = pre[i]

\* filepath.Rel(baseDir, filePath) for a filePath below baseDir
Rel(baseDir, filePath) ==
    SubSeq(filePath, Len(baseDir) + 2, Len(filePath))

\* filepath.ToSlash: the separator becomes '/', every other byte is kept
ToSlash(p) == [i \in 1..Len(p) |-> IF p[i] = Separator THEN 47 ELSE p[i]]

\* the -input and -output flags: "i" and "o"
inputDir == <<105>>
outputDir == <<111>>

\* ".cbz"
CbzExt == <<46, 99, 98, 122>>

----------------------------------------------------------------------------
(* Files, folders and the classifier *)

\* leading bytes of the file contents that are tried
JpegHead == <<255, 216, 255>>
TextHead == <<104, 105>>

\* line 333: make([]byte, 512)
BufferSize == 512

\* lines 333-334: the zeroed buffer after file.Read; the count that Read
\* returns is dropped, so the bytes after the end of a short file stay 0
ReadBuffer(head) ==
    [i \in 1..BufferSize |-> IF i <= Len(head) THEN head[i] ELSE 0]

\* a signature of http.DetectContentType matches the start of the buffer
\* (the buffer is never shorter than a signature)
HasSignature(buffer, sig) ==
    \A i \in 1..Len(sig) : buffer[i] = sig[i]

\* the masked signature "RIFF????WEBPVP" of http.DetectContentType
HasWebPSignature(buffer) ==
    /\ HasSignature(buffer, <<82, 73, 70, 70>>)
    /\ \A i \in 1..6 : buffer[8 + i] = <<87, 69, 66, 80, 86, 80>>[i]

\* a byte that the text signature of http.DetectContentType takes for
\* binary data
IsBinaryByte(b) ==
    \/ b <= 8
    \/ b = 11
    \/ b >= 14 /\ b <= 26
    \/ b >= 28 /\ b <= 31

\* a classification by the extension of the name: ".jpg" is an image
DetectByExtension(name) ==
    IF Len(name) >= 4
         /\ SubSeq(name, Len(name) - 3, Len(name)) = <<46, 106, 112, 103>>
    THEN <<"image", "jpeg">>
    ELSE <<"application", "octet-stream">>

\* http.DetectContentType on the buffer, for the signatures used ("BM",
\* "GIF87a", "GIF89a", WebP, PNG, JPEG, then the text signature): the media
\* type as <<type, subtype>>
DetectContentType(buffer) ==
    IF HasSignature(buffer, <<66, 77>>) THEN <<"image", "bmp">>
    ELSE IF HasSignature(buffer, <<71, 73, 70, 56, 55, 97>>)
            \/ HasSignature(buffer, <<71, 73, 70, 56, 57, 97>>)
        THEN <<"image", "gif">>
    ELSE IF HasWebPSignature(buffer) THEN <<"image", "webp">>
    ELSE IF HasSignature(buffer, <<137, 80, 78, 71, 13, 10, 26, 10>>)
        THEN <<"image", "png">>
    ELSE IF HasSignature(buffer, <<255, 216, 255>>) THEN <<"image", "jpeg">>
    ELSE IF \A i \in 1..BufferSize : ~IsBinaryByte(buffer[i])
        THEN <<"text", "plain">>
    ELSE <<"application", "octet-stream">>

\* a media type worked out from the name of the file
MimeTypeOfName(f) == DetectByExtension(f.rel)

\* the media type isImageFile works out for a file it could read
MimeType(f) == DetectContentType(ReadBuffer(f.head))

\* isImageFile: [err, image]; err when the file cannot be opened or read
isImageFile(f) ==
    IF f.classErr
    THEN [err |-> TRUE, image |-> FALSE]
    ELSE [err |-> FALSE, image |-> MimeType(f)[1] = "image"]

\* a callback that drops the file when its type cannot be determined
KeepAsImageDropOnError(f) ==
    LET r == isImageFile(f) IN
    IF r.err THEN FALSE ELSE r.image

\* the branch of the WalkDir callback that a regular file takes:
\* TRUE when the file is appended to imageFiles, FALSE to nonImageFiles
KeepAsImage(f) ==
    LET r == isImageFile(f) IN
    IF r.err THEN TRUE ELSE r.image

\* analyzeDirectory(dir) on a folder whose regular files, in the order
\* WalkDir visits them, are fld.files
DropAsNonImage(f) == ~KeepAsImage(f)

\* imageFiles as the walk appends to it: the paths of the files kept
WalkImages(dir, files) ==
    [i \in 1..Len(SelectSeq(files, KeepAsImage)) |->
        Join(dir, SelectSeq(files, KeepAsImage)[i].rel)]

\* nonImageFiles as the walk appends to it: the base names of the others
WalkNonImages(files) ==
    [i \in 1..Len(SelectSeq(files, DropAsNonImage)) |->
        Base(SelectSeq(files, DropAsNonImage)[i].rel)]

\* an analyzeDirectory that drops the error WalkDir returns
analyzeDirectoryErrDropped(dir, fld) ==
    [err |-> FALSE,
     imageFiles |-> SortStrings(WalkImages(dir, fld.files)),
     nonImageFiles |-> SortStrings(WalkNonImages(fld.files))]

analyzeDirectory(dir, fld) ==
    IF fld.fault = "walk"
    THEN [err |-> TRUE, imageFiles |-> <<>>, nonImageFiles |-> <<>>]
    ELSE [err |-> FALSE,
          imageFiles |-> SortStrings(WalkImages(dir, fld.files)),
          nonImageFiles |-> SortStrings(WalkNonImages(fld.files))]

\* relative paths a folder may hold: "a/x", "a.b", "c"
RelPool == {<<97, Separator, 120>>, <<97, 46, 98>>, <<99>>}

File(rel, head, classErr, addErr) ==
    [rel |-> rel, head |-> head, classErr |-> classErr, addErr |-> addErr]

Files == {File(r, h, c, a) : r \in RelPool, h \in {JpegHead, TextHead},
                             c \in BOOLEAN, a \in {"none", "open", "copy"}}

\* sequences of at most n files with distinct paths
RECURSIVE FileSeqs(_)
FileSeqs(n) ==
    IF n = 0 THEN {<<>>}
    ELSE LET S == FileSeqs(n - 1) IN
         S \cup {Append(s, f) : s \in {t \in S : Len(t) = n - 1},
                                f \in Files}

DistinctRels(s) == \A i, k \in 1..Len(s) : i # k => s[i].rel # s[k].rel

Folder(files, fault) == [kind |-> "dir", files |-> files, fault |-> fault]
NoEntry == [kind |-> "none", files |-> <<>>, fault |-> "none"]
FileEntry == [kind |-> "file", files |-> <<>>, fault |-> "none"]

\* every folder of at most MaxFiles files, with at most one folder-level
\* fault: WalkDir fails, os.Create fails, or closing the archive fails
AllFolders ==
    {Folder(s, x) : s \in {t \in FileSeqs(MaxFiles) : DistinctRels(t)},
                    x \in {"none", "walk", "create", "close"}}

\* the folders used where several jobs run concurrently
MixedFolder ==
    Folder(<<File(<<97, Separator, 120>>, JpegHead, FALSE, "none"),
             File(<<97, 46, 98>>, JpegHead, FALSE, "none"),
             File(<<99>>, TextHead, FALSE, "none")>>, "none")
TextFolder == Folder(<<File(<<99>>, TextHead, FALSE, "none")>>, "none")
BrokenFolder ==
    Folder(<<File(<<97, 46, 98>>, JpegHead, FALSE, "none"),
             File(<<99>>, JpegHead, FALSE, "copy")>>, "none")
UnreadableFolder ==
    Folder(<<File(<<97, 46, 98>>, TextHead, TRUE, "none"),
             File(<<99>>, JpegHead, FALSE, "none")>>, "none")
SampleFolders == {MixedFolder, TextFolder, BrokenFolder, UnreadableFolder}
\* a folder with a subdirectory that WalkDir cannot read
LockedFolder ==
    Folder(<<File(<<97, 46, 98>>, JpegHead, FALSE, "none"),
             File(<<99>>, TextHead, FALSE, "none")>>, "walk")

\* contents tried for the classifier: the signatures of PNG, GIF and WebP,
\* "GIF89a hi", "BM hi", a text of 512 bytes, that text followed by the
\* JPEG signature, and an empty file
PngHead == <<137, 80, 78, 71, 13, 10, 26, 10>>
Gif87Head == <<71, 73, 70, 56, 55, 97>>
Gif89Head == <<71, 73, 70, 56, 57, 97>>
WebPHead == <<82, 73, 70, 70, 36, 0, 0, 0, 87, 69, 66, 80, 86, 80>>
GifText == <<71, 73, 70, 56, 57, 97, 32, 104, 105>>
BmText == <<66, 77, 32, 104, 105>>
LongText == [i \in 1..BufferSize |-> 104]
SampleHeads ==
    {JpegHead, PngHead, Gif87Head, Gif89Head, WebPHead, TextHead, GifText,
     BmText, LongText, LongText \o JpegHead, <<>>}

\* file names tried for the classifier: "p.jpg", "p.txt", "p"
SampleNames ==
    {<<112, 46, 106, 112, 103>>, <<112, 46, 116, 120, 116>>, <<112>>}

\* the folders of one readable file of a sample name and a sample content
ClassifyFolders ==
    {Folder(<<File(n, h, FALSE, "none")>>, "none") :
        n \in SampleNames, h \in SampleHeads}

\* names an entry of the input root may have: "b", "a", "ab", "a.c"
NamePool == <<<<98>>, <<97>>, <<97, 98>>, <<97, 46, 99>>>>
EntryNames == {NamePool[i] : i \in 1..MaxEntries}

\* an OutputPath without the name of the folder
OutputPathOfFixed(folder) == Join(outputDir, CbzExt)

\* main: OutputPath of the job of a folder
OutputPathOf(folder) == Join(outputDir, folder \o CbzExt)
SourcePathOf(folder) == Join(inputDir, folder)

DestPaths == {OutputPathOf(n) : n \in EntryNames}

\* a file of the output root
Absent == [exists |-> FALSE, entries |-> <<>>, final |-> FALSE, by |-> 0]
\* an archive that was there before the first invocation
OldArchive ==
    [exists |-> TRUE, entries |-> <<<<112>>>>, final |-> TRUE, by |-> 0]

----------------------------------------------------------------------------
(* main *)

\* the validation with the ceiling at the CPU count, not twice that
ClampThreadsNoDouble(t, n) ==
    IF t < 1 THEN 1
    ELSE IF t > n THEN n
    ELSE t

\* main, lines 70-77: validation of the thread count
ClampThreads(t, n) ==
    IF t < 1 THEN 1
    ELSE IF t > n * 2 THEN n * 2
    ELSE t

\* os.ReadDir: the entries of the directory sorted by filename
ReadDir(root) == SortedSeqOf({n \in DOMAIN root : root[n].kind # "none"})

\* a getFolders that does not test entry.IsDir()
DirsOfAnyEntry(root, entries) == entries

\* getFolders, lines 162-166: the names of the entries that are directories
DirsOf(root, entries) ==
    LET IsDir(n) == root[n].kind = "dir" IN SelectSeq(entries, IsDir)

getFolders(root) == SortStrings(DirsOf(root, ReadDir(root)))

WorkItem(folder) ==
    [FolderName |-> folder,
     SourcePath |-> SourcePathOf(folder),
     OutputPath |-> OutputPathOf(folder)]

\* main, lines 110-117
MakeWorkItems(fs) == [i \in 1..Len(fs) |-> WorkItem(fs[i])]

NoItem == [FolderName |-> <<>>, SourcePath |-> <<>>, OutputPath |-> <<>>]

ZeroStats ==
    [Total |-> 0, Success |-> 0, Errors |-> 0, Skipped |-> 0,
     NonImageFiles |-> 0]

IdleWorker ==
    [pc |-> "recv", item |-> NoItem, result |-> "none", imageFiles |-> <<>>,
     nonImage |-> 0, i |-> 0, err |-> "none"]

\* nothing printed by printFinalStats yet
NoReport == [printed |-> FALSE, shown |-> FALSE, rate |-> 0]

\* float64(a) / float64(b) * 100 as "%.1f" prints it, in tenths of a percent
\* (nearest tenth, a tie to the even one); 0/0 is NaN and a/0 is +Inf in
\* Go's float64 arithmetic, which does not panic
PercentTenths(a, b) ==
    IF b = 0 THEN (IF a = 0 THEN "NaN" ELSE "+Inf")
    ELSE LET q == (1000 * a) \div b
             r == (1000 * a) % b
         IN IF 2 * r > b \/ (2 * r = b /\ q % 2 = 1) THEN q + 1 ELSE q

\* the rate computed without the test of processed
SuccessRateUnguarded(st) ==
    [printed |-> TRUE, shown |-> TRUE,
     rate |-> PercentTenths(st.Success, st.Success + st.Errors)]

\* printFinalStats, lines 413-418: the success rate line
SuccessRate(st) ==
    LET processed == st.Success + st.Errors IN
    IF processed > 0
    THEN [printed |-> TRUE, shown |-> TRUE,
          rate |-> PercentTenths(st.Success, processed)]
    ELSE [printed |-> TRUE, shown |-> FALSE, rate |-> 0]

\* what has been observed of a job: its state, the number of counter
\* increments made for it, whether its destination was there when checked,
\* the error it failed with, what it added to NonImageFiles, the workers
\* that received it
NewJob ==
    [state |-> "pending", incs |-> 0, existed |-> "unchecked",
     err |-> "none", excluded |-> 0, recv |-> <<>>]

----------------------------------------------------------------------------
(* Initial states *)

\* everything but the inputs, as it is when the process starts
Fresh ==
    /\ mainpc = "clamp"
    /\ folders = <<>>
    /\ workItems = <<>>
    /\ workChan = <<>>
    /\ chanCap = 0
    /\ closed = FALSE
    /\ sent = 0
    /\ prodpc = "idle"
    /\ wk = <<>>
    /\ wgCount = 0
    /\ stats = ZeroStats
    /\ mu = 0
    /\ job = <<>>
    /\ fatal = "none"
    /\ report = NoReport

\* output roots for an input root: an archive may already be there for a
\* folder of the input root
OutputRoots(root) ==
    {o \in [{OutputPathOf(n) : n \in DOMAIN root} -> {Absent, OldArchive}] :
        \A n \in DOMAIN root :
            root[n].kind # "dir" => o[OutputPathOf(n)] = Absent}

\* any input root over the sample folders; the thread count is within the
\* limit of the machine.  A job whose archive is already there never reads
\* its folder, so one folder stands for all of them in that case
Init ==
    /\ Fresh
    /\ run = 1
    /\ ncpu = MaxWorkers
    /\ requested \in 1..MaxWorkers
    /\ threads = requested
    /\ input \in [EntryNames -> {NoEntry, FileEntry} \cup SampleFolders]
    /\ outfs \in OutputRoots(input)
    /\ \A n \in DOMAIN input :
          outfs[OutputPathOf(n)].exists => input[n] = MixedFolder
    /\ fs0 = outfs

\* any thread count on any machine, one sample folder
InitClamp ==
    /\ Fresh
    /\ run = 1
    /\ ncpu \in 1..MaxCPU
    /\ requested \in (-1)..MaxRequested
    /\ threads = requested
    /\ input \in [{NamePool[1]} -> SampleFolders]
    /\ outfs \in OutputRoots(input)
    /\ fs0 = outfs

\* input roots of folders that convert, fail or are skipped
InitLive ==
    /\ Fresh
    /\ run = 1
    /\ ncpu = MaxWorkers
    /\ requested \in 1..MaxWorkers
    /\ threads = requested
    /\ input \in [EntryNames -> {NoEntry, MixedFolder, TextFolder}]
    /\ outfs \in OutputRoots(input)
    /\ fs0 = outfs

\* input roots of folders that cannot be walked and folders that convert
InitWalk ==
    /\ Fresh
    /\ run = 1
    /\ ncpu = MaxWorkers
    /\ requested \in 1..MaxWorkers
    /\ threads = requested
    /\ input \in [EntryNames -> {NoEntry, LockedFolder, MixedFolder}]
    /\ outfs \in OutputRoots(input)
    /\ fs0 = outfs

\* one folder of one file of a sample name and content, one worker
InitClassify ==
    /\ Fresh
    /\ run = 1
    /\ ncpu = 1
    /\ requested = 1
    /\ threads = requested
    /\ input \in [{NamePool[1]} -> ClassifyFolders]
    /\ outfs \in OutputRoots(input)
    /\ fs0 = outfs

\* one folder of any content, one worker
InitScan ==
    /\ Fresh
    /\ run = 1
    /\ ncpu = 1
    /\ requested = 1
    /\ threads = requested
    /\ input \in [{NamePool[1]} -> AllFolders]
    /\ outfs \in OutputRoots(input)
    /\ fs0 = outfs

----------------------------------------------------------------------------
(* main *)

\* lines 70-77
Clamp ==
    /\ mainpc = "clamp"
    /\ threads' = ClampThreads(threads, ncpu)
    /\ mainpc' = "statInput"
    /\ UNCHANGED <<fatal, report, run, ncpu, requested, input, outfs, fs0, folders, workItems, workChan,
                   chanCap, closed, sent, prodpc, wk, wgCount, stats, mu, job>>

\* lines 79-83: os.Stat(*inputDir); os.Exit(1) when it does not exist
CheckInput ==
    /\ mainpc = "statInput"
    /\ \E missing \in BOOLEAN :
          /\ mainpc' = IF missing THEN "exit1" ELSE "mkdir"
          /\ fatal' = IF missing THEN "input" ELSE fatal
    /\ UNCHANGED <<report, run, ncpu, requested, threads, input, outfs, fs0, folders, workItems,
                   workChan, chanCap, closed, sent, prodpc, wk, wgCount,
                   stats, mu, job>>

\* lines 85-89: os.MkdirAll(*outputDir); os.Exit(1) when it fails
MkdirOutput ==
    /\ mainpc = "mkdir"
    /\ \E failed \in BOOLEAN :
          /\ mainpc' = IF failed THEN "exit1" ELSE "getFolders"
          /\ fatal' = IF failed THEN "output" ELSE fatal
    /\ UNCHANGED <<report, run, ncpu, requested, threads, input, outfs, fs0, folders, workItems,
                   workChan, chanCap, closed, sent, prodpc, wk, wgCount,
                   stats, mu, job>>

\* lines 95-105: getFolders; os.Exit(1) on error, return when none found
GetFolders ==
    /\ mainpc = "getFolders"
    /\ \E failed \in BOOLEAN :
          IF failed
          THEN mainpc' = "exit1" /\ folders' = folders /\ fatal' = "read"
          ELSE /\ folders' = getFolders(input)
               /\ mainpc' = IF Len(getFolders(input)) = 0
                            THEN "done" ELSE "dispatch"
               /\ fatal' = fatal
    /\ UNCHANGED <<report, run, ncpu, requested, threads, input, outfs, fs0, workItems, workChan,
                   chanCap, closed, sent, prodpc, wk, wgCount, stats, mu, job>>

\* lines 109-121 and 173-192: the work items, the statistics, the channel,
\* the workers (wg.Add(1) before each go) and the producer goroutine
Dispatch ==
    /\ mainpc = "dispatch"
    /\ workItems' = MakeWorkItems(folders)
    /\ stats' = [ZeroStats EXCEPT !.Total = Len(folders)]
    /\ chanCap' = threads
    /\ workChan' = <<>>
    /\ closed' = FALSE
    /\ wk' = [w \in 1..threads |-> IdleWorker]
    /\ wgCount' = threads
    /\ prodpc' = "send"
    /\ sent' = 0
    /\ job' = [i \in 1..Len(folders) |-> NewJob]
    /\ mainpc' = "wait"
    /\ UNCHANGED <<fatal, report, run, ncpu, requested, threads, input, outfs, fs0, folders, mu>>

\* processConcurrently returning without waiting for the workers
WaitNoBlock ==
    /\ mainpc = "wait"
    /\ mainpc' = "print"
    /\ UNCHANGED <<fatal, report, run, ncpu, requested, threads, input, outfs, fs0,
                   folders, workItems, workChan, chanCap, closed, sent,
                   prodpc, wk, wgCount, stats, mu, job>>

\* a main that exits with status 1 when a job has failed
WaitExitOnErrors ==
    /\ mainpc = "wait"
    /\ wgCount = 0
    /\ mainpc' = IF stats.Errors > 0 THEN "exit1" ELSE "print"
    /\ fatal' = IF stats.Errors > 0 THEN "jobs" ELSE fatal
    /\ UNCHANGED <<report, run, ncpu, requested, threads, input, outfs, fs0,
                   folders, workItems, workChan, chanCap, closed, sent,
                   prodpc, wk, wgCount, stats, mu, job>>

\* line 195: wg.Wait()
Wait ==
    /\ mainpc = "wait"
    /\ wgCount = 0
    /\ mainpc' = "print"
    /\ UNCHANGED <<fatal, report, run, ncpu, requested, threads, input, outfs, fs0, folders, workItems,
                   workChan, chanCap, closed, sent, prodpc, wk, wgCount,
                   stats, mu, job>>

\* lines 123-124 and 393-419: printFinalStats takes the lock and reads
PrintFinalStats ==
    /\ mainpc = "print"
    /\ mu = 0
    /\ report' = SuccessRate(stats)
    /\ mainpc' = "done"
    /\ UNCHANGED <<fatal, run, ncpu, requested, threads, input, outfs, fs0, folders, workItems,
                   workChan, chanCap, closed, sent, prodpc, wk, wgCount,
                   stats, mu, job>>

----------------------------------------------------------------------------
(* the producer goroutine, lines 187-192 *)

\* a send that puts the item in front of the buffered ones
SendPrepend ==
    /\ prodpc = "send"
    /\ sent < Len(workItems)
    /\ Len(workChan) < chanCap
    /\ workChan' = <<workItems[sent + 1]>> \o workChan
    /\ sent' = sent + 1
    /\ UNCHANGED <<fatal, report, mainpc, run, ncpu, requested, threads,
                   input, outfs, fs0, folders, workItems, chanCap, closed,
                   prodpc, wk, wgCount, stats, mu, job>>

\* a send that does not block on a full channel
SendUnbounded ==
    /\ prodpc = "send"
    /\ sent < Len(workItems)
    /\ workChan' = Append(workChan, workItems[sent + 1])
    /\ sent' = sent + 1
    /\ UNCHANGED <<fatal, report, mainpc, run, ncpu, requested, threads,
                   input, outfs, fs0, folders, workItems, chanCap, closed,
                   prodpc, wk, wgCount, stats, mu, job>>

\* lines 189-191: workChan <- item blocks while the buffer is full
Send ==
    /\ prodpc = "send"
    /\ sent < Len(workItems)
    /\ Len(workChan) < chanCap
    /\ workChan' = Append(workChan, workItems[sent + 1])
    /\ sent' = sent + 1
    /\ UNCHANGED <<fatal, report, mainpc, run, ncpu, requested, threads, input, outfs, fs0, folders,
                   workItems, chanCap, closed, prodpc, wk, wgCount, stats,
                   mu, job>>

\* a producer goroutine that returns without closing the channel
CloseChanForgotten ==
    /\ prodpc = "send"
    /\ sent = Len(workItems)
    /\ prodpc' = "done"
    /\ UNCHANGED <<fatal, report, mainpc, run, ncpu, requested, threads, input, outfs, fs0,
                   folders, workItems, workChan, chanCap, closed, sent, wk,
                   wgCount, stats, mu, job>>

\* defer close(workChan)
CloseChan ==
    /\ prodpc = "send"
    /\ sent = Len(workItems)
    /\ closed' = TRUE
    /\ prodpc' = "done"
    /\ UNCHANGED <<fatal, report, mainpc, run, ncpu, requested, threads, input, outfs, fs0, folders,
                   workItems, workChan, chanCap, sent, wk, wgCount, stats,
                   mu, job>>

----------------------------------------------------------------------------
(* the worker goroutines: worker, processWorkItem, convertToCBZ *)

\* index of a work item in workItems
JobOf(item) == CHOOSE i \in 1..Len(workItems) : workItems[i] = item

\* the folder a SourcePath names
FolderAt(path) == input[Rel(inputDir, path)]

\* the file of a folder that WalkDir reported under this path
FileAt(dir, path) ==
    CHOOSE f \in Range(FolderAt(dir).files) : Join(dir, f.rel) = path

\* a processWorkItem without the check of the destination
ExistsNever(fs, path) == FALSE

\* the check of the destination with err != nil for err == nil
ExistsNegated(fs, path) == ~(path \in DOMAIN fs /\ fs[path].exists)

\* line 216: os.Stat(item.OutputPath) returns no error
Exists(fs, path) == path \in DOMAIN fs /\ fs[path].exists

\* a convertToCBZ without the check for an empty image list
EmptyImageSetIgnored(imageFiles) == FALSE

\* line 255: len(imageFiles) == 0
EmptyImageSet(imageFiles) == Len(imageFiles) = 0

\* the update with NonImageFiles = nonImageCount for += nonImageCount
BumpAssign(st, result, nonImageCount) ==
    CASE result = "skip" -> [st EXCEPT !.Skipped = @ + 1]
      [] result = "fail" -> [st EXCEPT !.Errors = @ + 1]
      [] result = "ok" -> [st EXCEPT !.Success = @ + 1,
                                     !.NonImageFiles = nonImageCount]

\* the update of a success without the line for NonImageFiles
BumpForgetExcluded(st, result, nonImageCount) ==
    CASE result = "skip" -> [st EXCEPT !.Skipped = @ + 1]
      [] result = "fail" -> [st EXCEPT !.Errors = @ + 1]
      [] result = "ok" -> [st EXCEPT !.Success = @ + 1]

\* lines 218-220, 228-230, 235-238: the update made under stats.mu
Bump(st, result, nonImageCount) ==
    CASE result = "skip" -> [st EXCEPT !.Skipped = @ + 1]
      [] result = "fail" -> [st EXCEPT !.Errors = @ + 1]
      [] result = "ok" -> [st EXCEPT !.Success = @ + 1,
                                     !.NonImageFiles = @ + nonImageCount]

\* a worker that returns from its loop when a conversion fails
AfterItemStopOnFail(result) == IF result = "fail" THEN "halt" ELSE "recv"

\* a processWorkItem whose skip branch lacks its return: the job goes on
\* to be converted
AfterItemNoReturn(result) == IF result = "skip" THEN "scan" ELSE "recv"

\* lines 221, 231, 246 and 201-207: processWorkItem returns and the worker
\* loop receives again (after time.Sleep)
AfterItem(result) == "recv"

\* the outcome a counter stands for
Terminal(result) ==
    CASE result = "skip" -> "skipped"
      [] result = "fail" -> "failed"
      [] result = "ok" -> "succeeded"

\* a receive that leaves the item at the head of the channel
ReceiveNoDequeue(w) ==
    /\ wk[w].pc = "recv"
    /\ workChan # <<>>
    /\ wk' = [wk EXCEPT ![w].pc = "stat", ![w].item = Head(workChan)]
    /\ job' = [job EXCEPT ![JobOf(Head(workChan))].recv = Append(@, w)]
    /\ UNCHANGED <<fatal, report, mainpc, run, ncpu, requested, threads,
                   input, outfs, fs0, folders, workItems, workChan, chanCap,
                   closed, sent, prodpc, wgCount, stats, mu>>

\* line 201: range workChan receives an item
Receive(w) ==
    /\ wk[w].pc = "recv"
    /\ workChan # <<>>
    /\ wk' = [wk EXCEPT ![w].pc = "stat", ![w].item = Head(workChan)]
    /\ workChan' = Tail(workChan)
    /\ job' = [job EXCEPT ![JobOf(Head(workChan))].recv = Append(@, w)]
    /\ UNCHANGED <<fatal, report, mainpc, run, ncpu, requested, threads,
                   input, outfs, fs0, folders, workItems, chanCap, closed,
                   sent, prodpc, wgCount, stats, mu>>

\* a worker that leaves its loop when it finds the channel empty
WorkerExitOnEmpty(w) ==
    /\ wk[w].pc = "recv"
    /\ workChan = <<>>
    /\ wk' = [wk EXCEPT ![w].pc = "exit"]
    /\ wgCount' = wgCount - 1
    /\ UNCHANGED <<fatal, report, mainpc, run, ncpu, requested, threads,
                   input, outfs, fs0, folders, workItems, workChan, chanCap,
                   closed, sent, prodpc, stats, mu, job>>

\* lines 199, 201: range ends on a closed and drained channel; wg.Done()
WorkerExit(w) ==
    /\ wk[w].pc = "recv"
    /\ workChan = <<>>
    /\ closed
    /\ wk' = [wk EXCEPT ![w].pc = "exit"]
    /\ wgCount' = wgCount - 1
    /\ UNCHANGED <<fatal, report, mainpc, run, ncpu, requested, threads, input, outfs, fs0, folders,
                   workItems, workChan, chanCap, closed, sent, prodpc, stats,
                   mu, job>>

\* lines 215-222: the check of the destination
StatOutput(w) ==
    /\ wk[w].pc = "stat"
    /\ LET e == Exists(outfs, wk[w].item.OutputPath)
           j == JobOf(wk[w].item)
       IN /\ wk' = [wk EXCEPT ![w].pc = IF e THEN "lock" ELSE "scan",
                              ![w].result = IF e THEN "skip" ELSE "none"]
          /\ job' = [job EXCEPT
                       ![j].existed = IF outfs[wk[w].item.OutputPath].exists
                                      THEN "yes" ELSE "no",
                       ![j].state = IF e THEN @ ELSE "running"]
    /\ UNCHANGED <<fatal, report, mainpc, run, ncpu, requested, threads, input, outfs, fs0, folders,
                   workItems, workChan, chanCap, closed, sent, prodpc,
                   wgCount, stats, mu>>

\* lines 249-257: analyzeDirectory and the empty-image-set check
Scan(w) ==
    /\ wk[w].pc = "scan"
    /\ \E r \in {analyzeDirectory(wk[w].item.SourcePath,
                                    FolderAt(wk[w].item.SourcePath))} :
          wk' = IF r.err
                THEN [wk EXCEPT ![w].pc = "lock", ![w].result = "fail",
                                ![w].err = "analyze"]
                ELSE IF EmptyImageSet(r.imageFiles)
                THEN [wk EXCEPT ![w].pc = "lock", ![w].result = "fail",
                                ![w].err = "empty"]
                ELSE [wk EXCEPT ![w].pc = "create",
                                ![w].imageFiles = r.imageFiles,
                                ![w].nonImage = Len(r.nonImageFiles)]
    /\ UNCHANGED <<fatal, report, mainpc, run, ncpu, requested, threads, input, outfs, fs0, folders,
                   workItems, workChan, chanCap, closed, sent, prodpc,
                   wgCount, stats, mu, job>>

\* lines 259-268: os.Create truncates or creates the destination
Create(w) ==
    /\ wk[w].pc = "create"
    /\ IF FolderAt(wk[w].item.SourcePath).fault = "create"
       THEN /\ wk' = [wk EXCEPT ![w].pc = "lock", ![w].result = "fail",
                                ![w].err = "create",
                                ![w].imageFiles = <<>>, ![w].nonImage = 0]
            /\ outfs' = outfs
       ELSE /\ wk' = [wk EXCEPT
                        ![w].pc = IF Len(wk[w].imageFiles) = 0
                                  THEN "close" ELSE "add",
                        ![w].i = 1]
            /\ outfs' = [outfs EXCEPT ![wk[w].item.OutputPath] =
                           [exists |-> TRUE, entries |-> <<>>,
                            final |-> FALSE, by |-> run]]
    /\ UNCHANGED <<fatal, report, mainpc, run, ncpu, requested, threads, input, fs0, folders,
                   workItems, workChan, chanCap, closed, sent, prodpc,
                   wgCount, stats, mu, job>>

\* addFileToZip, lines 351-357: the name of the entry
EntryName(baseDir, filePath) == ToSlash(Rel(baseDir, filePath))

\* lines 270-275 and addFileToZip: one pass of the loop.  os.Open fails
\* before the entry exists; io.Copy fails after CreateHeader has added it
AddFile(w) ==
    /\ wk[w].pc = "add"
    /\ LET dir == wk[w].item.SourcePath
           path == wk[w].imageFiles[wk[w].i]
           f == FileAt(dir, path)
           entry == [name |-> EntryName(dir, path),
                     whole |-> f.addErr = "none"]
           dst == wk[w].item.OutputPath
       IN /\ outfs' = IF f.addErr = "open" THEN outfs
                      ELSE [outfs EXCEPT ![dst].entries = Append(@, entry)]
          /\ wk' = IF f.addErr # "none"
                   THEN [wk EXCEPT ![w].pc = "close", ![w].err = "add"]
                   ELSE [wk EXCEPT
                           ![w].pc = IF wk[w].i = Len(wk[w].imageFiles)
                                     THEN "close" ELSE "add",
                           ![w].i = @ + 1]
    /\ UNCHANGED <<fatal, report, mainpc, run, ncpu, requested, threads, input, fs0, folders,
                   workItems, workChan, chanCap, closed, sent, prodpc,
                   wgCount, stats, mu, job>>

\* lines 264, 268, 273, 277: the deferred zipWriter.Close() and
\* cbzFile.Close() run on both returns and their errors are dropped
CloseArchive(w) ==
    /\ wk[w].pc = "close"
    /\ outfs' = [outfs EXCEPT ![wk[w].item.OutputPath].final =
                   FolderAt(wk[w].item.SourcePath).fault # "close"]
    /\ wk' = [wk EXCEPT ![w].pc = "lock",
                        ![w].result = IF wk[w].err # "none"
                                      THEN "fail" ELSE "ok",
                        ![w].nonImage = IF wk[w].err # "none" THEN 0 ELSE @,
                        ![w].imageFiles = <<>>,
                        ![w].i = 0]
    /\ UNCHANGED <<fatal, report, mainpc, run, ncpu, requested, threads, input, fs0, folders,
                   workItems, workChan, chanCap, closed, sent, prodpc,
                   wgCount, stats, mu, job>>

\* an update that does not wait for the lock
LockUnguarded(w) ==
    /\ wk[w].pc = "lock"
    /\ mu' = w
    /\ wk' = [wk EXCEPT ![w].pc = "update"]
    /\ UNCHANGED <<fatal, report, mainpc, run, ncpu, requested, threads,
                   input, outfs, fs0, folders, workItems, workChan, chanCap,
                   closed, sent, prodpc, wgCount, stats, job>>

\* lines 218, 228, 235: stats.mu.Lock()
Lock(w) ==
    /\ wk[w].pc = "lock"
    /\ mu = 0
    /\ mu' = w
    /\ wk' = [wk EXCEPT ![w].pc = "update"]
    /\ UNCHANGED <<fatal, report, mainpc, run, ncpu, requested, threads, input, outfs, fs0, folders,
                   workItems, workChan, chanCap, closed, sent, prodpc,
                   wgCount, stats, job>>

\* lines 219-221, 229-231, 236-246: the counter update, Unlock and return
Update(w) ==
    /\ wk[w].pc = "update"
    /\ mu = w
    /\ stats' = Bump(stats, wk[w].result, wk[w].nonImage)
    /\ mu' = 0
    /\ job' = [job EXCEPT
                 ![JobOf(wk[w].item)] =
                    [@ EXCEPT !.state = Terminal(wk[w].result),
                              !.incs = @ + 1,
                              !.err = wk[w].err,
                              !.excluded = @ + stats'.NonImageFiles
                                             - stats.NonImageFiles]]
    /\ wk' = [wk EXCEPT ![w].pc = AfterItem(wk[w].result),
                        ![w].nonImage = 0,
                        ![w].err = "none"]
    /\ UNCHANGED <<fatal, report, mainpc, run, ncpu, requested, threads, input, outfs, fs0, folders,
                   workItems, workChan, chanCap, closed, sent, prodpc,
                   wgCount>>

Worker(w) ==
    \/ Receive(w)
    \/ WorkerExit(w)
    \/ StatOutput(w)
    \/ Scan(w)
    \/ Create(w)
    \/ AddFile(w)
    \/ CloseArchive(w)
    \/ Lock(w)
    \/ Update(w)

Workers == \E w \in DOMAIN wk : Worker(w)

Main ==
    \/ Clamp
    \/ CheckInput
    \/ MkdirOutput
    \/ GetFolders
    \/ Dispatch
    \/ Wait
    \/ PrintFinalStats

Producer == Send \/ CloseChan

Next == Main \/ Producer \/ Workers

Spec == Init /\ [][Next]_vars

SpecScan == InitScan /\ [][Next]_vars

SpecClamp == InitClamp /\ [][Next]_vars

SpecWalk == InitWalk /\ [][Next]_vars

SpecClassify == InitClassify /\ [][Next]_vars

\* the Go scheduler runs every goroutine that can take a step, and every
\* file operation returns
Fairness ==
    /\ WF_vars(Main)
    /\ WF_vars(Producer)
    /\ \A w \in 1..MaxWorkers : WF_vars(w \in DOMAIN wk /\ Worker(w))

SpecLive == InitLive /\ [][Next]_vars /\ Fairness

\* the tool is invoked again with the same flags once an invocation that
\* ran its jobs has returned: a new process, the same two directories
Restart ==
    /\ mainpc = "done"
    /\ run = 1
    /\ workItems # <<>>
    /\ run' = 2
    /\ threads' = requested
    /\ fs0' = outfs
    /\ mainpc' = "clamp"
    /\ folders' = <<>>
    /\ workItems' = <<>>
    /\ workChan' = <<>>
    /\ chanCap' = 0
    /\ closed' = FALSE
    /\ sent' = 0
    /\ prodpc' = "idle"
    /\ wk' = <<>>
    /\ wgCount' = 0
    /\ stats' = ZeroStats
    /\ mu' = 0
    /\ job' = <<>>
    /\ fatal' = "none"
    /\ report' = NoReport
    /\ UNCHANGED <<ncpu, requested, input, outfs>>

NextRerun == Main \/ Producer \/ Workers \/ Restart

SpecRerun == Init /\ [][NextRerun]_vars

----------------------------------------------------------------------------
(* Properties *)

Subfolders == {n \in DOMAIN input : input[n].kind = "dir"}

TerminalStates == {"skipped", "succeeded", "failed"}

JobsIn(st) == {j \in DOMAIN job : job[j].state = st}

\* the steps a job may take
JobStep ==
    \A j \in DOMAIN job \cap DOMAIN job' :
        \/ job'[j].state = job[j].state /\ job'[j].incs = job[j].incs
        \/ /\ job[j].state = "pending"
           /\ job'[j].state = "running"
           /\ job'[j].incs = 0
        \/ /\ job[j].state = "pending"
           /\ job'[j].state = "skipped"
           /\ job'[j].incs = 1
           /\ stats' = [stats EXCEPT !.Skipped = @ + 1]
        \/ /\ job[j].state = "running"
           /\ job'[j].state = "succeeded"
           /\ job'[j].incs = 1
           /\ stats'.Success = stats.Success + 1
           /\ stats'.Errors = stats.Errors
           /\ stats'.Skipped = stats.Skipped
        \/ /\ job[j].state = "running"
           /\ job'[j].state = "failed"
           /\ job'[j].incs = 1
           /\ stats' = [stats EXCEPT !.Errors = @ + 1]

\* the counters count the jobs in each terminal outcome
JobCounters ==
    /\ \A j \in DOMAIN job :
          /\ job[j].state \in {"pending", "running"} \cup TerminalStates
          /\ job[j].incs = IF job[j].state \in TerminalStates THEN 1 ELSE 0
    /\ stats.Success = Cardinality(JobsIn("succeeded"))
    /\ stats.Errors = Cardinality(JobsIn("failed"))
    /\ stats.Skipped = Cardinality(JobsIn("skipped"))
    /\ mainpc \in {"print", "done"} =>
          \A j \in DOMAIN job : job[j].state \in TerminalStates

\* C1: every job moves pending -> (skipped | running -> (succeeded |
\* failed)) and in no other way; each move to a terminal outcome increments
\* the counter of that outcome and no other, once; a terminal job never
\* changes again; when the workers have been waited for every job is
\* terminal
C1_JobStateMachine == []JobCounters /\ [][JobStep]_vars

\* a run has ended with a skipped, a failed... job: two outcomes counted
C1_Witness ==
    /\ mainpc = "done"
    /\ JobsIn("skipped") # {}
    /\ JobsIn("succeeded") # {}
    /\ stats.Skipped = 1
    /\ stats.Success = 1

\* C2: the jobs are the immediate subfolders of the input root, one job
\* each, Total is their number N, and once processConcurrently has returned
\* Success + Errors + Skipped = N
C2_OneJobPerSubfolder ==
    /\ mainpc \in {"wait", "print", "done"} =>
          /\ Len(workItems) = Cardinality(Subfolders)
          /\ {workItems[i].FolderName : i \in DOMAIN workItems} = Subfolders
          /\ stats.Total = Cardinality(Subfolders)
    /\ mainpc \in {"print", "done"} =>
          stats.Success + stats.Errors + stats.Skipped
             = Cardinality(Subfolders)

\* two workers have handled the single subfolder of a root that also holds
\* a plain file
C2_Witness ==
    /\ mainpc = "print"
    /\ Cardinality(Subfolders) = 1
    /\ \E n \in DOMAIN input : input[n].kind = "file"
    /\ Len(wk) = 2
    /\ stats.Total = 1
    /\ stats.Success + stats.Errors + stats.Skipped = 1

\* the archive path of a job
Dest(j) == workItems[j].OutputPath

\* C3: when the tool is run again on the same input, every folder whose
\* archive is in the output root when that invocation starts ends skipped
\* and its archive stays as it was throughout; if every folder had its
\* archive, the whole output root stays as it was
C3_RerunSkips ==
    run = 2 =>
       /\ \A p \in DOMAIN fs0 : fs0[p].exists => outfs[p] = fs0[p]
       /\ mainpc \in {"print", "done"} =>
             \A j \in DOMAIN job :
                fs0[Dest(j)].exists => job[j].state = "skipped"
       /\ (\A n \in Subfolders : fs0[OutputPathOf(n)].exists) => outfs = fs0

\* the second invocation has ended; it skipped an archive that the first
\* invocation had written
C3_Witness ==
    /\ run = 2
    /\ mainpc = "done"
    /\ \E j \in DOMAIN job :
          /\ fs0[Dest(j)].by = 1
          /\ fs0[Dest(j)].final
          /\ fs0[Dest(j)].entries # <<>>
          /\ job[j].state = "skipped"
          /\ outfs[Dest(j)] = fs0[Dest(j)]

\* what is known of jobs and workers about the destination check
SkipIffExisted ==
    /\ \A j \in DOMAIN job :
          /\ job[j].state = "skipped" => job[j].existed = "yes"
          /\ job[j].state \in {"running", "succeeded", "failed"}
                => job[j].existed = "no"
    /\ \A w \in DOMAIN wk :
          wk[w].pc \in {"scan", "create", "add", "close"}
             => job[JobOf(wk[w].item)].existed = "no"

\* a file of the output root changes only under a running job of that
\* destination, which was not there when the job checked it
WritesOnlyAbsent ==
    \A p \in DOMAIN outfs :
        outfs'[p] # outfs[p] =>
            \E j \in DOMAIN job :
                /\ Dest(j) = p
                /\ job[j].state = "running"
                /\ job[j].existed = "no"

\* C4: a job ends skipped exactly when its destination was there at the
\* moment its worker checked it; a job whose destination was there never
\* scans or writes; every creation, truncation or write of a destination
\* is by a job that found it absent
C4_SkipIffDestinationExists == []SkipIffExisted /\ [][WritesOnlyAbsent]_vars

\* a job has skipped an archive that is still as it was, while another
\* job has written its own
C4_Witness ==
    /\ mainpc = "done"
    /\ \E j, k \in DOMAIN job :
          /\ job[j].state = "skipped"
          /\ job[j].existed = "yes"
          /\ outfs[Dest(j)] = OldArchive
          /\ job[k].state = "succeeded"
          /\ job[k].existed = "no"
          /\ outfs[Dest(k)].by = 1

\* the files of a folder that the scan keeps as image content
Kept(fld) == {f \in Range(fld.files) : KeepAsImage(f)}

\* the result of a job from its own folder and its own destination alone
ExpectedResult(n) ==
    IF fs0[OutputPathOf(n)].exists THEN "skip"
    ELSE IF input[n].fault = "walk" \/ Kept(input[n]) = {} THEN "fail"
    ELSE IF input[n].fault = "create" THEN "fail"
    ELSE IF \E f \in Kept(input[n]) : f.addErr # "none" THEN "fail"
    ELSE "ok"

ExpectedExcluded(n) ==
    IF ExpectedResult(n) = "ok"
    THEN Cardinality(Range(input[n].files) \ Kept(input[n]))
    ELSE 0

\* a worker that has recorded a failure is back at the head of its loop
FailureKeepsWorker ==
    \A w \in DOMAIN wk \cap DOMAIN wk' :
        (wk[w].pc = "update" /\ wk[w].result = "fail" /\ wk'[w] # wk[w])
            => wk'[w].pc = "recv"

\* no worker stops before the channel is closed and drained, and at the end
\* every job has the outcome its own folder and destination give it
FailureIsLocal ==
    /\ \A w \in DOMAIN wk :
          wk[w].pc \notin {"recv", "stat", "scan", "create", "add", "close",
                           "lock", "update"}
             => wk[w].pc = "exit" /\ closed /\ workChan = <<>>
                  /\ sent = Len(workItems)
    /\ mainpc \in {"print", "done"} =>
          \A j \in DOMAIN job :
             job[j].state = Terminal(ExpectedResult(workItems[j].FolderName))

\* C5: a failed job stops nothing else: its worker goes back to receiving,
\* no worker leaves before the channel is closed and empty, and every job
\* ends in the outcome that its own folder and destination determine,
\* whatever the other jobs did
C5_FailureDoesNotAbort == []FailureIsLocal /\ [][FailureKeepsWorker]_vars

\* the only worker has failed on the first job and succeeded on the second
C5_Witness ==
    /\ mainpc = "done"
    /\ Len(wk) = 1
    /\ Len(job) = 2
    /\ job[1].state = "failed"
    /\ job[2].state = "succeeded"

SumOver(S, F(_)) ==
    LET RECURSIVE Sum(_)
        Sum(T) == IF T = {} THEN 0
                  ELSE LET x == CHOOSE y \in T : TRUE
                       IN F(x) + Sum(T \ {x})
    IN Sum(S)

\* the statistics as the input root and the output root determine them
ExpectedStats ==
    [Total |-> Cardinality(Subfolders),
     Success |-> Cardinality({n \in Subfolders : ExpectedResult(n) = "ok"}),
     Errors |-> Cardinality({n \in Subfolders : ExpectedResult(n) = "fail"}),
     Skipped |-> Cardinality({n \in Subfolders : ExpectedResult(n) = "skip"}),
     NonImageFiles |-> SumOver(Subfolders, ExpectedExcluded)]

\* C6: the final statistics are a function of the input root and the
\* initial output root alone: with any number of workers and under any
\* interleaving they are the ones a single worker produces
C6_StatsIndependentOfThreads ==
    mainpc \in {"print", "done"} => stats = ExpectedStats

\* two workers have converted two folders with different excluded counts
C6_Witness ==
    /\ mainpc = "done"
    /\ Len(wk) = 2
    /\ stats.Total = 2
    /\ stats.Success = 2
    /\ stats.NonImageFiles = 1

Max(a, b) == IF a > b THEN a ELSE b

\* C7: the number of workers started is min(max(t, 1), 2 x NumCPU) for the
\* requested t, so it lies in [1, 2 x NumCPU]
C7_ThreadClamp ==
    /\ mainpc # "clamp" =>
          /\ threads = Min(Max(requested, 1), 2 * ncpu)
          /\ threads >= 1
          /\ threads <= 2 * ncpu
          /\ requested = 0 => threads = 1
          /\ requested > 2 * ncpu => threads = 2 * ncpu
    /\ mainpc \in {"wait", "print"} =>
          /\ Len(wk) = Min(Max(requested, 1), 2 * ncpu)
          /\ chanCap = Len(wk)

\* three threads were asked for on one CPU: two workers run
C7_Witness ==
    /\ mainpc = "wait"
    /\ requested = 3
    /\ ncpu = 1
    /\ Len(wk) = 2

\* every file of the folder is classified, and as non-image
AllNonImage(fld) ==
    /\ fld.fault # "walk"
    /\ \A f \in Range(fld.files) :
          ~isImageFile(f).err /\ ~isImageFile(f).image

\* C8: a job on a folder all of whose files are classified as non-image,
\* with no archive at its destination, fails with the empty-image-set
\* error, never has a file at its destination, and adds nothing to
\* NonImageFiles
C8_OnlyNonImagesFails ==
    \A j \in DOMAIN job :
        (AllNonImage(input[workItems[j].FolderName])
            /\ ~fs0[Dest(j)].exists)
        => /\ ~outfs[Dest(j)].exists
           /\ job[j].state \in {"pending", "running", "failed"}
           /\ job[j].state = "failed" => job[j].err = "empty"
           /\ job[j].excluded = 0
           /\ mainpc \in {"print", "done"} => job[j].state = "failed"

\* a folder of two text files has failed for want of images
C8_Witness ==
    /\ mainpc = "done"
    /\ \E j \in DOMAIN job :
          /\ AllNonImage(input[workItems[j].FolderName])
          /\ Len(input[workItems[j].FolderName].files) = 2
          /\ job[j].state = "failed"
          /\ job[j].err = "empty"
          /\ ~outfs[Dest(j)].exists

\* the names of the entries of an archive, in the order written
ArchiveNames(a) == [i \in 1..Len(a.entries) |-> a.entries[i].name]

StrictlySorted(s) == \A i \in 1..(Len(s) - 1) : LexLess(s[i], s[i + 1])

\* the files of a folder whose contents are an image (of the contents
\* tried, those that start with the JPEG signature)
ImageContent(fld) ==
    {f \in Range(fld.files) : HasPrefix(f.head, JpegHead)}

Finished ==
    /\ mainpc \in {"done", "exit1"}
    /\ workItems # <<>> =>
          /\ sent = Len(workItems)
          /\ closed
          /\ prodpc = "done"
          /\ workChan = <<>>
          /\ wgCount = 0
          /\ \A w \in DOMAIN wk : wk[w].pc = "exit"
          /\ \A j \in DOMAIN job : job[j].state \in TerminalStates

\* C10: under fair scheduling every run ends: all jobs are enqueued and the
\* channel closed, every job reaches a terminal outcome, every worker
\* exits and wg.Wait returns, with more workers than jobs and with fewer
C10_RunTerminates == <>Finished

\* one worker has taken two jobs to the end
C10_Witness ==
    /\ Finished
    /\ mainpc = "done"
    /\ Len(wk) = 1
    /\ Len(workItems) = 2

\* when main is past wg.Wait every worker has left its loop, the channel is
\* closed and empty, the lock is free and every job is terminal; what
\* printFinalStats printed is computed from the counters as they are
WorkersGoneAtRead ==
    /\ mainpc \in {"print", "done"} =>
          /\ wgCount = 0
          /\ \A w \in DOMAIN wk : wk[w].pc = "exit"
          /\ closed \/ workItems = <<>>
          /\ workChan = <<>>
          /\ mu = 0
          /\ \A j \in DOMAIN job : job[j].state \in TerminalStates
          /\ stats.Success + stats.Errors + stats.Skipped = Len(workItems)
    /\ report.printed =>
          /\ mainpc = "done"
          /\ report = SuccessRate(stats)

\* once main is past wg.Wait no counter changes
FrozenAfterWait ==
    mainpc \in {"print", "done"} => stats' = stats

\* C11: printFinalStats runs only when every worker has exited and every
\* job is terminal, and from the return of wg.Wait on the counters no
\* longer change, so what is printed is the final value
C11_FinalStatsAfterWorkers == []WorkersGoneAtRead /\ [][FrozenAfterWait]_vars

\* the statistics of two jobs run by two workers are about to be printed
C11_Witness ==
    /\ mainpc = "print"
    /\ Len(wk) = 2
    /\ Len(job) = 2
    /\ \A w \in DOMAIN wk : wk[w].pc = "exit"
    /\ stats.Success + stats.Errors + stats.Skipped = 2

\* how often a job sits in the channel
InChan(j) ==
    Cardinality({i \in 1..Len(workChan) : workChan[i] = workItems[j]})

\* the workers that are processing a job
Holders(j) ==
    {w \in DOMAIN wk : /\ wk[w].pc \notin {"recv", "exit"}
                        /\ wk[w].item = workItems[j]}

\* C12: a job that was sent is either in the channel, once, or was received,
\* once and by one worker, which alone processes it until the job is
\* terminal; a job not yet sent is nowhere; when the run ends every job has
\* been received once and is terminal
C12_ConsumedExactlyOnce ==
    /\ \A j \in DOMAIN job :
          /\ IF j <= sent
             THEN InChan(j) + Len(job[j].recv) = 1
             ELSE InChan(j) = 0 /\ job[j].recv = <<>>
          /\ job[j].recv = <<>> =>
                Holders(j) = {} /\ job[j].state = "pending"
          /\ job[j].recv # <<>> =>
                IF job[j].state \in TerminalStates
                THEN Holders(j) = {}
                ELSE Holders(j) = {job[j].recv[1]}
    /\ mainpc \in {"print", "done"} =>
          \A j \in DOMAIN job :
             Len(job[j].recv) = 1 /\ job[j].state \in TerminalStates

\* two workers have each taken one of two jobs to the end
C12_Witness ==
    /\ mainpc = "done"
    /\ Len(job) = 2
    /\ Len(wk) = 2
    /\ job[1].recv = <<2>>
    /\ job[2].recv = <<1>>
    /\ \A j \in DOMAIN job : job[j].state \in TerminalStates

\* the files of a folder whose classification fails, and the others
Unclassified(fld) == {f \in Range(fld.files) : isImageFile(f).err}

ClassifiedImage(fld) ==
    {f \in Range(fld.files) : ~isImageFile(f).err /\ isImageFile(f).image}

ClassifiedNonImage(fld) ==
    {f \in Range(fld.files) : ~isImageFile(f).err /\ ~isImageFile(f).image}

\* the folder without the files whose classification fails
WithoutUnclassified(fld) ==
    LET Classified(f) == ~isImageFile(f).err
    IN [fld EXCEPT !.files = SelectSeq(fld.files, Classified)]

\* the result of converting a folder to a destination that is not there
ResultOn(fld) ==
    IF fld.fault = "walk" \/ Kept(fld) = {} THEN "fail"
    ELSE IF fld.fault = "create" THEN "fail"
    ELSE IF \E f \in Kept(fld) : f.addErr # "none" THEN "fail"
    ELSE "ok"

\* C13 as stated: a job whose folder holds files that cannot be classified
\* ends failed only if it fails without those files as well
C13_FileIssuesNeverFailJob ==
    \A j \in DOMAIN job :
        LET fld == input[workItems[j].FolderName] IN
        (job[j].state = "failed" /\ Unclassified(fld) # {})
            => ResultOn(WithoutUnclassified(fld)) = "fail"

Partial(a, fld) ==
    /\ a.exists
    /\ a.by >= 1
    /\ \/ Len(a.entries) < Cardinality(Kept(fld))
       \/ \E i \in 1..Len(a.entries) : ~a.entries[i].whole

\* C15 as stated: in a second invocation no job ends skipped or succeeded
\* while the partial archive that the first invocation left is still the
\* file at its destination
C15_PartialNeverComplete ==
    run = 2 =>
       \A j \in DOMAIN job :
          (/\ Partial(fs0[Dest(j)], input[workItems[j].FolderName])
           /\ outfs[Dest(j)] = fs0[Dest(j)])
          => job[j].state \notin {"skipped", "succeeded"}

\* a failure of os.Create, of adding one of the files or of closing the
\* archive happens when the folder of a job is built
BuildFailure(fld) ==
    /\ fld.fault # "walk"
    /\ Kept(fld) # {}
    /\ \/ fld.fault \in {"create", "close"}
       \/ \E f \in Kept(fld) : f.addErr # "none"

\* the entries written stop at the first file that fails: none follows an
\* entry that is not whole, and none is there when os.Create failed
StopsAtFirstError(a, fld) ==
    /\ fld.fault = "create" => ~a.exists
    /\ \A i \in 1..Len(a.entries) : ~a.entries[i].whole => i = Len(a.entries)
    /\ \A f \in Kept(fld) :
          f.addErr = "open" =>
             \A i \in 1..Len(a.entries) :
                /\ a.entries[i].name # ToSlash(f.rel)
                /\ LexLess(a.entries[i].name, ToSlash(f.rel))

\* C16 as stated: a job whose build meets a failure, the close of the
\* archive included, ends failed, counted once, with the writing stopped at
\* the first error
C16_AnyBuildFailureFails ==
    \A j \in DOMAIN job :
        LET fld == input[workItems[j].FolderName] IN
        (/\ job[j].state \in TerminalStates
         /\ job[j].existed = "no"
         /\ BuildFailure(fld))
        => /\ job[j].state = "failed"
           /\ stats.Errors >= 1
           /\ StopsAtFirstError(outfs[Dest(j)], fld)

\* the number of files of the folder of a job that the scan classifies as
\* non-image
JobNonImages(j) ==
    Cardinality(ClassifiedNonImage(input[workItems[j].FolderName]))

\* the excluded total is the sum over the succeeded jobs, each job has
\* added its count if it succeeded and nothing otherwise
ExcludedIsSumOverSucceeded ==
    /\ stats.NonImageFiles = SumOver(JobsIn("succeeded"), JobNonImages)
    /\ \A j \in DOMAIN job :
          job[j].excluded = IF job[j].state = "succeeded"
                            THEN JobNonImages(j) ELSE 0

\* NonImageFiles changes only in a step that counts a success, and the step
\* that makes a job succeeded adds the count of that job
AddedWithSuccess ==
    /\ stats'.NonImageFiles # stats.NonImageFiles
          => stats'.Success = stats.Success + 1
    /\ \A j \in DOMAIN job \cap DOMAIN job' :
          (job[j].state # "succeeded" /\ job'[j].state = "succeeded")
             => /\ stats'.Success = stats.Success + 1
                /\ stats'.NonImageFiles
                      = stats.NonImageFiles + JobNonImages(j)

\* C17: at every moment, so also when the run ends, NonImageFiles is the
\* sum over the succeeded jobs of the number of non-image files of their
\* folders; failed and skipped jobs add nothing; the count of a job is added
\* in the step that increments Success for it
C17_ExcludedTotal == []ExcludedIsSumOverSucceeded /\ [][AddedWithSuccess]_vars

\* a folder with a non-image file has succeeded and one has failed: only
\* the first is in the total
C17_Witness ==
    /\ mainpc = "done"
    /\ Len(wk) = 2
    /\ \E j, k \in DOMAIN job :
          /\ job[j].state = "succeeded"
          /\ JobNonImages(j) = 1
          /\ job[k].state = "failed"
          /\ JobNonImages(k) = 1
    /\ stats.NonImageFiles = 1

\* the folder of a job cannot be walked
WalkFails(j) == input[workItems[j].FolderName].fault = "walk"

\* C18: a job whose folder cannot be walked, with no archive at its
\* destination, fails with the error of the scan, never has a file at its
\* destination and adds nothing to the excluded total; no worker stops and
\* every other job ends in the outcome its own folder and destination give
C18_TraversalErrorIsLocal ==
    /\ \A j \in DOMAIN job :
          (WalkFails(j) /\ ~fs0[Dest(j)].exists)
          => /\ ~outfs[Dest(j)].exists
             /\ job[j].state \in {"pending", "running", "failed"}
             /\ job[j].state = "failed" => job[j].err = "analyze"
             /\ job[j].excluded = 0
             /\ mainpc \in {"print", "done"} => job[j].state = "failed"
    /\ \A w \in DOMAIN wk :
          wk[w].pc = "exit" => closed /\ workChan = <<>>
    /\ mainpc \in {"print", "done"} =>
          \A j \in DOMAIN job :
             ~WalkFails(j) =>
                job[j].state
                   = Terminal(ExpectedResult(workItems[j].FolderName))

\* the one worker has failed on a folder it could not walk and has then
\* converted the next folder
C18_Witness ==
    /\ mainpc = "done"
    /\ Len(wk) = 1
    /\ Len(job) = 2
    /\ WalkFails(1)
    /\ job[1].state = "failed"
    /\ job[1].err = "analyze"
    /\ ~outfs[Dest(1)].exists
    /\ job[2].state = "succeeded"

\* nothing of a run has happened: no work item, no worker, no job, the
\* output root as it was
NoJobsRun ==
    /\ workItems = <<>>
    /\ wk = <<>>
    /\ job = <<>>
    /\ stats = ZeroStats
    /\ outfs = fs0

\* C19 as stated: main exits with status 1 only for a missing input root or
\* an output root that cannot be created, before any job
C19_OnlyTwoFatalConditions ==
    /\ mainpc = "exit1" <=> fatal # "none"
    /\ mainpc = "exit1" => fatal \in {"input", "output"} /\ NoJobsRun

\* C19: main exits with status 1 only for a missing input root, an output
\* root that cannot be created or an input root that cannot be read, each
\* time before any job; once the jobs are dispatched it never does
C19_OnlyThreeFatalConditions ==
    /\ mainpc = "exit1" <=> fatal # "none"
    /\ mainpc = "exit1" =>
          fatal \in {"input", "output", "read"} /\ NoJobsRun
    /\ job # <<>> => mainpc \in {"wait", "print", "done"}

\* main has exited because os.ReadDir failed on the input root
C19_Witness ==
    /\ mainpc = "exit1"
    /\ fatal = "read"
    /\ NoJobsRun
    /\ Cardinality(Subfolders) = 2

\* C20: the rate line is printed exactly when Success + Errors > 0, and
\* then it is Success / (Success + Errors) x 100 to the nearest tenth, a
\* number from 0 to 100; with Success + Errors = 0 nothing is divided
C20_SuccessRateGuarded ==
    report.printed =>
       /\ report.shown = (stats.Success + stats.Errors > 0)
       /\ stats.Success + stats.Errors = 0 => report.rate = 0
       /\ stats.Success + stats.Errors > 0 =>
             LET processed == stats.Success + stats.Errors
                 off == report.rate * processed - 1000 * stats.Success
             IN /\ report.rate \in 0..1000
                /\ 2 * off <= processed
                /\ 2 * off >= -processed

\* every job of a run was skipped and the summary has no rate line
C20_Witness ==
    /\ report.printed
    /\ ~report.shown
    /\ stats.Total = 2
    /\ stats.Skipped = 2

\* the contents of a file begin with the magic bytes of JPEG, PNG, GIF or
\* WebP ("RIFF", four bytes of length, "WEBPVP")
HasImageMagic(head) ==
    \/ HasPrefix(head, <<255, 216, 255>>)
    \/ HasPrefix(head, <<137, 80, 78, 71, 13, 10, 26, 10>>)
    \/ HasPrefix(head, <<71, 73, 70, 56, 55, 97>>)
    \/ HasPrefix(head, <<71, 73, 70, 56, 57, 97>>)
    \/ /\ Len(head) >= 14
       /\ SubSeq(head, 1, 4) = <<82, 73, 70, 70>>
       /\ SubSeq(head, 9, 14) = <<87, 69, 66, 80, 86, 80>>

\* the first 512 bytes of the contents are text: printable ASCII, tab, line
\* feed, carriage return
LeadingText(head) ==
    /\ head # <<>>
    /\ \A i \in 1..Min(Len(head), BufferSize) :
          \/ head[i] >= 32 /\ head[i] <= 126
          \/ head[i] \in {9, 10, 13}

\* the name ends in ".jpg"
HasImageExtension(name) ==
    /\ Len(name) >= 4
    /\ SubSeq(name, Len(name) - 3, Len(name)) = <<46, 106, 112, 103>>

\* the job of a folder of one file took the file for an image: it built an
\* archive with that file as its entry
TakenAsImage(j) ==
    LET f == input[workItems[j].FolderName].files[1] IN
    /\ job[j].state = "succeeded"
    /\ job[j].excluded = 0
    /\ outfs[Dest(j)].entries = <<[name |-> ToSlash(f.rel), whole |-> TRUE]>>

\* the job of a folder of one file took the file for a non-image: the image
\* list was empty
TakenAsNonImage(j) ==
    /\ job[j].state = "failed"
    /\ job[j].err = "empty"
    /\ ~outfs[Dest(j)].exists

\* the jobs of the folders of one file that have ended, without those
\* skipped
Classified(j) ==
    /\ job[j].state \in TerminalStates
    /\ job[j].existed = "no"
    /\ Len(input[workItems[j].FolderName].files) = 1

\* C21 as stated: a file that begins with image magic bytes is classified
\* as image whatever its name, and a file named .jpg whose content is text
\* is classified as non-image
C21_TextNeverImage ==
    \A j \in DOMAIN job :
        Classified(j) =>
           LET f == input[workItems[j].FolderName].files[1] IN
           /\ HasImageMagic(f.head) => TakenAsImage(j)
           /\ (HasImageExtension(f.rel) /\ LeadingText(f.head))
                 => TakenAsNonImage(j)

\* C21: a file that begins with image magic bytes is classified as image
\* whatever its name, and a file whose first 512 bytes are text that does
\* not begin with an image signature ("GIF87a", "GIF89a", "BM", WebP) is
\* classified as non-image whatever its name
C21_ClassifiedByLeadingBytes ==
    \A j \in DOMAIN job :
        Classified(j) =>
           LET f == input[workItems[j].FolderName].files[1] IN
           /\ HasImageMagic(f.head) => TakenAsImage(j)
           /\ (/\ LeadingText(f.head)
               /\ ~HasImageMagic(f.head)
               /\ ~HasPrefix(f.head, <<66, 77>>))
                 => TakenAsNonImage(j)

\* a file named p.txt that begins with the WebP signature was archived
C21_Witness ==
    \E j \in DOMAIN job :
        /\ Classified(j)
        /\ input[workItems[j].FolderName].files[1].rel
              = <<112, 46, 116, 120, 116>>
        /\ input[workItems[j].FolderName].files[1].head = WebPHead
        /\ TakenAsImage(j)

\* a worker that has left its loop saw the channel closed and empty; the
\* channel is closed only by the producer when it has sent every job
ExitedOnClosedEmpty ==
    /\ \A w \in DOMAIN wk : wk[w].pc = "exit" => closed /\ workChan = <<>>
    /\ closed => sent = Len(workItems) /\ prodpc = "done"
    /\ wgCount = Cardinality({w \in DOMAIN wk : wk[w].pc # "exit"})

\* a worker leaves only at a closed and empty channel; the close happens
\* once, with every job sent; after it nothing is sent and the channel only
\* drains
ClosedOnce ==
    /\ \A w \in DOMAIN wk \cap DOMAIN wk' :
          (wk[w].pc # "exit" /\ wk'[w].pc = "exit")
             => closed /\ workChan = <<>>
    /\ (~closed /\ closed')
          => sent = Len(workItems) /\ prodpc = "send" /\ prodpc' = "done"
    /\ prodpc = "done" => prodpc' = "done"
    /\ closed
          => /\ closed'
             /\ sent' = sent
             /\ \/ workChan' = workChan
                \/ workChan # <<>> /\ workChan' = Tail(workChan)

\* C22: no worker exits unless the channel is closed and empty; the channel
\* is closed once, by the producer, after all the jobs were sent, and
\* nothing is sent after that
C22_ExitOnlyOnClosedAndEmpty == []ExitedOnClosedEmpty /\ [][ClosedOnce]_vars

\* one worker has exited at the closed channel while the other still adds
\* files to its archive
C22_Witness ==
    /\ Len(wk) = 2
    /\ closed
    /\ sent = 2
    /\ wk[1].pc = "exit"
    /\ wk[2].pc = "add"

\* the number of jobs that workers have received
Claimed == Cardinality({j \in DOMAIN job : job[j].recv # <<>>})

\* C23: the jobs are sent in the lexicographic order of their folder names
\* and received in that order: the channel holds the jobs sent and not yet
\* received, in order, a job is received only when every job before it
\* was, and a single worker has ended every earlier job when it receives
\* the next
C23_FifoInFolderOrder ==
    /\ \A j, k \in DOMAIN workItems :
          j < k => LexLess(workItems[j].FolderName, workItems[k].FolderName)
    /\ job # <<>> =>
          /\ workChan = SubSeq(workItems, Claimed + 1, sent)
          /\ \A j \in DOMAIN job : job[j].recv # <<>> <=> j <= Claimed
          /\ Len(wk) = 1 =>
                \A j, k \in DOMAIN job :
                   (j < k /\ job[k].recv # <<>>)
                      => job[j].state \in TerminalStates

\* two jobs wait in the channel in the order of their names
C23_Witness ==
    /\ Len(workChan) = 2
    /\ workChan[1] = workItems[1]
    /\ workChan[2] = workItems[2]
    /\ LexLess(workChan[1].FolderName, workChan[2].FolderName)

\* C24: the lock is free or held by one worker, and a worker holds it
\* exactly while it is at its counter update: never while it receives,
\* checks the destination, scans, builds the archive or waits for the lock
C24_LockOnlyForUpdate ==
    /\ mu \in {0} \cup DOMAIN wk
    /\ \A w \in DOMAIN wk : mu = w <=> wk[w].pc = "update"
    /\ Cardinality({w \in DOMAIN wk : wk[w].pc = "update"}) <= 1

\* one worker updates the counters while the other adds files to its
\* archive
C24_Witness ==
    /\ Len(wk) = 2
    /\ mu = 1
    /\ wk[1].pc = "update"
    /\ wk[2].pc = "add"

\* the jobs a worker is processing
HeldBy(w) == {j \in DOMAIN job : w \in Holders(j)}

\* C25: the workers are as many as the effective thread count and so is
\* the capacity of the channel; the channel never holds more jobs than its
\* capacity, a worker processes at most one job, and the running jobs are
\* at most as many as the workers
C25_BoundedPoolAndQueue ==
    mainpc \in {"wait", "print", "done"} /\ workItems # <<>> =>
       /\ Len(wk) = threads
       /\ chanCap = threads
       /\ Len(workChan) <= chanCap
       /\ \A w \in DOMAIN wk : Cardinality(HeldBy(w)) <= 1
       /\ Cardinality(JobsIn("running")) <= Len(wk)
       /\ \A j \in JobsIn("running") : Cardinality(Holders(j)) = 1

\* the one worker runs the first job while the second fills the channel
C25_Witness ==
    /\ Len(wk) = 1
    /\ chanCap = 1
    /\ Len(workChan) = 1
    /\ JobsIn("running") = {1}

\* the positions of convertToCBZ from os.Create to the deferred closes
Building == {"create", "add", "close"}

\* C26: the jobs of a run have distinct destinations; two workers never
\* build the same archive; a file of the output root that changed in this
\* run belongs to one job, which found it absent; a job is skipped only for
\* an archive that was there when the run started
C26_DistinctDestinations ==
    /\ \A j, k \in DOMAIN workItems :
          j # k => workItems[j].OutputPath # workItems[k].OutputPath
    /\ \A w, v \in DOMAIN wk :
          (w # v /\ wk[w].pc \in Building /\ wk[v].pc \in Building)
             => wk[w].item.OutputPath # wk[v].item.OutputPath
    /\ \A p \in DOMAIN outfs :
          outfs[p] # fs0[p] =>
             /\ Cardinality({j \in DOMAIN job : Dest(j) = p}) = 1
             /\ \A j \in DOMAIN job : Dest(j) = p => job[j].existed = "no"
    /\ \A j \in DOMAIN job :
          job[j].state = "skipped" => fs0[Dest(j)].exists

\* two workers add files to two different archives
C26_Witness ==
    /\ Len(wk) = 2
    /\ wk[1].pc = "add"
    /\ wk[2].pc = "add"
    /\ wk[1].item.OutputPath # wk[2].item.OutputPath
    /\ outfs[wk[1].item.OutputPath].by = run
    /\ outfs[wk[2].item.OutputPath].by = run

\* C27 as stated: a job counted in Success has an archive at its
\* destination that holds every file of its image list whole and was
\* finalized and closed
C27_SuccessAfterFinalized ==
    \A j \in DOMAIN job :
        job[j].state = "succeeded" =>
           LET fld == input[workItems[j].FolderName]
               a == outfs[Dest(j)]
           IN /\ a.exists
              /\ Len(a.entries) = Cardinality(Kept(fld))
              /\ \A i \in 1..Len(a.entries) : a.entries[i].whole
              /\ a.final

====
